---- MODULE Spec2Model ----
(***************************************************************************)
(* Model of profiles/base/accounts/display-accts.py: the account-file      *)
(* parser (_ParseAccount, ParseGroup, ParseUser), the table printer        *)
(* (DisplayAccounts), the consistency checker (CheckConsistency) and the   *)
(* driver (main).                                                          *)
(*                                                                         *)
(* Text.  A Python string is modelled as a sequence of symbols.  The       *)
(* symbols ":", ",", "#" and "\n" are the single characters the code       *)
(* looks for; " " is a space; every other symbol ("group", "gid", "a",     *)
(* "1", ...) stands for a run of characters that contains none of those    *)
(* and is not part of a longer word.  The empty string is <<>>.            *)
(***************************************************************************)
EXTENDS Integers, Sequences, FiniteSets, TLC

VARIABLES
    pname,      \* _ParseAccount: |name|, the basename of the file
    pcontent,   \* _ParseAccount: |content|, the raw text
    pkind,      \* which of ParseGroup / ParseUser was called ("none" before)
    presult,    \* what the call returned or raised
    cgroups,    \* CheckConsistency: |groups|
    cusers,     \* CheckConsistency: |users|
    cresult,    \* what CheckConsistency returned and printed
    argv,       \* main: the account arguments (paths) of the command line
    disk,       \* main: the files glob finds under group/ and user/
    pc,         \* main: position in the function
    accounts,   \* main: |accounts|
    consistency_check, \* main: |consistency_check|
    idx,        \* main: how many entries of |accounts| the for loop has taken
    groups,     \* main: |groups|
    users,      \* main: |users|
    stdout,     \* everything printed to sys.stdout, in order
    stderr,     \* everything printed to sys.stderr, in order
    trace,      \* the calls main made, in order
    status      \* <<>> while main runs, then <<the exit status of the process>>

vars == <<pname, pcontent, pkind, presult, cgroups, cusers, cresult,
          argv, disk, pc, accounts, consistency_check, idx, groups, users,
          stdout, stderr, trace, status>>

parseVars == <<pname, pcontent, pkind, presult>>
checkVars == <<cgroups, cusers, cresult>>
mainVars  == <<argv, disk, pc, accounts, consistency_check, idx, groups,
               users, stdout, stderr, trace, status>>

-----------------------------------------------------------------------------
(* Bounds of the model. *)

MaxLines == 3       \* lines of a text given to the parser
MaxGroups == 2      \* group records given to the checker
MaxUsers == 2       \* user records given to the checker
MaxFiles == 3       \* account files of one run of main

-----------------------------------------------------------------------------
(* Strings. *)

NL == "\n"

Range(s) == {s[i] : i \in 1..Len(s)}

\* str.split(sep): the parts between the occurrences of sep; always at
\* least one part, and ''.split(sep) is [''].
RECURSIVE split(_, _)
split(s, sep) ==
    IF \E i \in 1..Len(s) : s[i] = sep
    THEN LET i == CHOOSE k \in 1..Len(s) :
                     s[k] = sep /\ \A j \in 1..(k - 1) : s[j] # sep
         IN  <<SubSeq(s, 1, i - 1)>> \o split(SubSeq(s, i + 1, Len(s)), sep)
    ELSE <<s>>

\* str.splitlines(): like split on the line break, but a final line break
\* opens no further line, and ''.splitlines() is [].
splitlines(s) ==
    LET parts == split(s, NL)
    IN  IF parts[Len(parts)] = <<>> THEN SubSeq(parts, 1, Len(parts) - 1)
        ELSE parts

\* line.startswith('#')
startswith_hash(line) == Len(line) > 0 /\ line[1] = "#"

\* 'group:' in content
has_group_colon(content) ==
    \E i \in 1..(Len(content) - 1) : content[i] = "group" /\ content[i + 1] = ":"

\* ', '.join(names), kept as the list of the joined names
RECURSIVE join(_, _)
join(parts, sep) ==
    IF Len(parts) = 0 THEN <<>>
    ELSE IF Len(parts) = 1 THEN parts[1]
    ELSE parts[1] \o <<sep>> \o join(Tail(parts), sep)

-----------------------------------------------------------------------------
(* The record schema. *)

GroupFields == {"group", "password", "gid", "users", "defunct"}
UserFields  == {"user", "password", "uid", "gid", "gecos", "home", "shell",
                "defunct"}

GroupDefaults ==
    [password |-> <<"!">>, users |-> <<>>, defunct |-> <<>>]
UserDefaults ==
    [gecos |-> <<>>, home |-> <<"/dev/null">>, password |-> <<"!">>,
     shell |-> <<"/bin/false">>, defunct |-> <<>>]

-----------------------------------------------------------------------------
(* The parser. *)

NoDict == [none |-> <<>>]

\* What _ParseAccount returns or raises.  tag "ok": the object built from d.
\* Otherwise a ValueError, told apart by its message:
\*   "unpack"   key, val = line.split(':') had not exactly two parts
\*              (parts: how many it had)
\*   "unknown"  'unknown key: %s' % key
\*   "missing"  'missing keys: %s' (keys: the set joined in the message)
\*   "name"     'account "%s" has the %s field set to "%s"'
Ok(d) == [tag |-> "ok", d |-> d, parts |-> 0, key |-> <<>>, keys |-> {}]
Raise(tag, parts, key, keys) ==
    [tag |-> tag, d |-> NoDict, parts |-> parts, key |-> key, keys |-> keys]

\* Store, but a key already set keeps its value (first occurrence wins).
Store_KeepFirst(d, key, val) ==
    [k \in (DOMAIN d) \cup {key} |-> IF k \in DOMAIN d THEN d[k] ELSE val]

\* d[key] = val
Store(d, key, val) ==
    [k \in (DOMAIN d) \cup {key} |-> IF k = key THEN val ELSE d[k]]

\* ParseLine without the test of the key against obj._fields.
ParseLine_NoKeyCheck(st, line, fields) ==
    IF st.tag # "ok" THEN st
    ELSE IF line = <<>> \/ startswith_hash(line) THEN st
    ELSE LET kv == split(line, ":")
         IN  IF Len(kv) # 2 THEN Raise("unpack", Len(kv), <<>>, {})
             ELSE IF Len(kv[1]) # 1 THEN Raise("unknown", 0, kv[1], {})
             ELSE Ok(Store(st.d, kv[1][1], kv[2]))

\* ParseLine with line.split(':', 1): the value takes the rest of the line.
ParseLine_SplitOnce(st, line, fields) ==
    IF st.tag # "ok" THEN st
    ELSE IF line = <<>> \/ startswith_hash(line) THEN st
    ELSE LET kv == split(line, ":")
         IN  IF Len(kv) < 2 THEN Raise("unpack", Len(kv), <<>>, {})
             ELSE IF ~(Len(kv[1]) = 1 /\ kv[1][1] \in fields)
                  THEN Raise("unknown", 0, kv[1], {})
             ELSE Ok(Store(st.d, kv[1][1],
                           SubSeq(line, Len(kv[1]) + 2, Len(line))))

\* One pass of the body of the for loop over |line|; st is either the
\* dict so far (tag "ok") or the error already raised, which ends the loop.
ParseLine(st, line, fields) ==
    IF st.tag # "ok" THEN st
    ELSE IF line = <<>> \/ startswith_hash(line) THEN st
    ELSE LET kv == split(line, ":")
         IN  IF Len(kv) # 2 THEN Raise("unpack", Len(kv), <<>>, {})
             ELSE IF ~(Len(kv[1]) = 1 /\ kv[1][1] \in fields)
                  THEN Raise("unknown", 0, kv[1], {})
             ELSE Ok(Store(st.d, kv[1][1], kv[2]))

RECURSIVE ParseLoop(_, _, _)
ParseLoop(st, lines, fields) ==
    IF Len(lines) = 0 THEN st
    ELSE ParseLoop(ParseLine(st, Head(lines), fields), Tail(lines), fields)

\* missing_keys that counts a field holding '' as not set.
missing_keys_EmptyIsMissing(d, fields) ==
    fields \ {k \in DOMAIN d : d[k] # <<>>}

\* missing_keys = set(obj._fields) - set(d.keys())
missing_keys(d, fields) == fields \ DOMAIN d

\* NameCheck without the comparison.
NameCheck_Omitted(d, name_key, name) == Ok(d)

\* if d[name_key] != name: raise
NameCheck(d, name_key, name) ==
    IF d[name_key] # name THEN Raise("name", 0, d[name_key], {})
    ELSE Ok(d)

_ParseAccount(name, name_key, content, fields, defaults) ==
    LET st == ParseLoop(Ok(defaults), splitlines(content), fields)
    IN  IF st.tag # "ok" THEN st
        ELSE IF missing_keys(st.d, fields) # {}
             THEN Raise("missing", 0, <<>>, missing_keys(st.d, fields))
        ELSE NameCheck(st.d, name_key, name)

ParseGroup(name, content) ==
    _ParseAccount(name, "group", content, GroupFields, GroupDefaults)

ParseUser(name, content) ==
    _ParseAccount(name, "user", content, UserFields, UserDefaults)

-----------------------------------------------------------------------------
(* The consistency checker. *)

\* A line printed to sys.stderr.  msg tells the format string:
\*   "duplicate gid"  'error: duplicate gid found: %s: %s' % (id, names)
\*   "duplicate uid"  'error: duplicate uid found: %s: %s' % (id, names)
\*   "unknown users"  'error: group lists unknown users'
\*   "wants"          'error: group "%s" wants missing user "%s"'
\*                    (gi: which entry of |groups| the loop was at)
\*   "parse"          'error: %s: %s' % (f, e), printed by main
ErrLine(msg, id, names, gi, group, user) ==
    [msg |-> msg, id |-> id, names |-> names, gi |-> gi, group |-> group,
     user |-> user, path |-> <<>>, error |-> "none"]

\* How many entries of ids equal v: collections.Counter
Count(ids, v) == Cardinality({i \in 1..Len(ids) : ids[i] = v})

\* dup_keys with 'v > 2' for 'v > 1'.
RECURSIVE dup_keys_MoreThanTwo(_, _)
dup_keys_MoreThanTwo(ids, i) ==
    IF i > Len(ids) THEN <<>>
    ELSE (IF (\A j \in 1..(i - 1) : ids[j] # ids[i]) /\ Count(ids, ids[i]) > 2
          THEN <<ids[i]>> ELSE <<>>) \o dup_keys_MoreThanTwo(ids, i + 1)

\* [k for k, v in counts.items() if v > 1], in the order the keys were
\* first counted.  (The order of a dict's keys is the interpreter's; only
\* the order of the lines among themselves depends on it.)
RECURSIVE dup_keys(_, _)
dup_keys(ids, i) ==
    IF i > Len(ids) THEN <<>>
    ELSE (IF (\A j \in 1..(i - 1) : ids[j] # ids[i]) /\ Count(ids, ids[i]) > 1
          THEN <<ids[i]>> ELSE <<>>) \o dup_keys(ids, i + 1)

\* The elements of a set, one after the other: the order a for loop visits
\* a Python set in.  (Which order is the interpreter's.)
RECURSIVE set_iter(_)
set_iter(S) ==
    IF S = {} THEN <<>>
    ELSE LET x == CHOOSE y \in S : TRUE IN <<x>> \o set_iter(S \ {x})

\* dupes = ', '.join(x.group for x in groups if x.gid == gid), and the
\* line printed with it; name_key is 'group' or 'user', id_key 'gid' or
\* 'uid'.
dupes(accts, name_key, id_key, id) ==
    LET same == SelectSeq(accts, LAMBDA x : x[id_key] = id)
    IN  [i \in 1..Len(same) |-> same[i][name_key]]

\* The loop over the ids counted more than once (lines 128-132, 134-138).
dup_lines(accts, name_key, id_key, msg) ==
    LET ids  == [i \in 1..Len(accts) |-> accts[i][id_key]]
        keys == dup_keys(ids, 1)
    IN  [i \in 1..Len(keys) |->
            ErrLine(msg, keys[i], dupes(accts, name_key, id_key, keys[i]),
                    0, <<>>, <<>>)]

found_users(us) == {us[i]["user"] : i \in 1..Len(us)}

\* want_users: the members of every group whose users field is not ''
want_users(gs) ==
    UNION { Range(split(gs[i]["users"], ",")) :
                i \in {j \in 1..Len(gs) : gs[j]["users"] # <<>>} }

missing_users(gs, us) == want_users(gs) \ found_users(us)

\* for group in groups: for user in missing_users:
\*   if user in group.users.split(','): print(...)
RECURSIVE wants_lines(_, _, _)
wants_lines(gs, i, missing) ==
    IF i > Len(gs) THEN <<>>
    ELSE LET mine == SelectSeq(set_iter(missing),
                       LAMBDA u : u \in Range(split(gs[i]["users"], ",")))
         IN  [k \in 1..Len(mine) |->
                 ErrLine("wants", <<>>, <<>>, i, gs[i]["group"], mine[k])]
             \o wants_lines(gs, i + 1, missing)

\* CheckConsistency(groups, users): ret, and the lines printed to stderr.
CheckConsistency(gs, us) ==
    LET gid_lines == dup_lines(gs, "group", "gid", "duplicate gid")
        uid_lines == dup_lines(us, "user", "uid", "duplicate uid")
        missing   == missing_users(gs, us)
    IN  [called |-> TRUE,
         ret |-> (gid_lines = <<>> /\ uid_lines = <<>> /\ missing = {}),
         err |-> gid_lines \o uid_lines \o
                 (IF missing # {}
                  THEN <<ErrLine("unknown users", <<>>, <<>>, 0, <<>>, <<>>)>>
                       \o wants_lines(gs, 1, missing)
                  ELSE <<>>)]

NoCheck == [called |-> FALSE, ret |-> TRUE, err |-> <<>>]

-----------------------------------------------------------------------------
(* The table printer. *)

\* int(text) for the texts of the model: a run of digits has a value, any
\* other text (the empty one too) makes int raise ValueError.
IntValue == [s \in {"0", "1", "2", "01", "10"} |->
                CASE s = "0" -> 0 [] s = "1" -> 1 [] s = "2" -> 2
                  [] s = "01" -> 1 [] s = "10" -> 10]
int_raises(text) == ~(Len(text) = 1 /\ text[1] \in DOMAIN IntValue)
int(text) == IntValue[text[1]]

\* str.upper() for the labels of the tables
upper(label) ==
    CASE label = "gid" -> "GID" [] label = "uid" -> "UID"
      [] label = "group" -> "GROUP" [] label = "user" -> "USER"
      [] label = "pass" -> "PASS" [] label = "users" -> "USERS"
      [] label = "defunct" -> "DEFUNCT" [] label = "shell" -> "SHELL"
      [] label = "home" -> "HOME" [] label = "gecos" -> "GECOS"

\* |order| of the two tables: (field, label) pairs
GroupOrder == << <<"gid", "">>, <<"group", "">>, <<"password", "pass">>,
                 <<"users", "">>, <<"defunct", "">> >>
UserOrder  == << <<"uid", "">>, <<"gid", "">>, <<"user", "">>,
                 <<"shell", "">>, <<"home", "">>, <<"password", "pass">>,
                 <<"gecos", "">>, <<"defunct", "">> >>

\* header_obj: each field holds its label, or its own name, in upper case
header_obj(order) ==
    [k \in {order[i][1] : i \in 1..Len(order)} |->
        LET i == CHOOSE j \in 1..Len(order) : order[j][1] = k
        IN  <<upper(IF order[i][2] # "" THEN order[i][2] ELSE order[i][1])>>]

\* sorted(accts, key=sorter): ascending by int(field), equal keys in their
\* given order
RECURSIVE sorted(_, _)
sorted(accts, k) ==
    IF Len(accts) = 0 THEN <<>>
    ELSE LET front == sorted(SubSeq(accts, 1, Len(accts) - 1), k)
             x     == accts[Len(accts)]
             n     == Cardinality({i \in 1..Len(front) :
                                      int(front[i][k]) <= int(x[k])})
         IN  SubSeq(front, 1, n) \o <<x>> \o SubSeq(front, n + 1, Len(front))

\* p(obj): one printed row, the cells in the order of keys.  (The padding
\* of each cell to the width of its column is left out.)
p(table, obj, order) ==
    [line |-> "row", table |-> table,
     cells |-> [i \in 1..Len(order) |-> obj[order[i][1]]]]

\* DisplayAccounts(accts, order): the rows printed, or the ValueError that
\* int raises in the sort key before any row is printed.
DisplayAccounts(table, accts, order) ==
    IF \E i \in 1..Len(accts) : int_raises(accts[i][order[1][1]])
    THEN [raised |-> TRUE, rows |-> <<>>]
    ELSE LET all == <<header_obj(order)>> \o sorted(accts, order[1][1])
         IN  [raised |-> FALSE,
              rows |-> [i \in 1..Len(all) |-> p(table, all[i], order)]]

-----------------------------------------------------------------------------
(* The driver. *)

EX_DATAERR == 65    \* os.EX_DATAERR
EX_OK == 0          \* exit(None), main having returned nothing
EX_TRACEBACK == 1   \* the interpreter's status for an uncaught exception

\* os.path.basename(f)
basename(path) ==
    LET slashes == {i \in 1..Len(path) : path[i] = "/"}
        last    == IF slashes = {} THEN 0
                   ELSE CHOOSE i \in slashes : \A j \in slashes : j <= i
    IN  SubSeq(path, last + 1, Len(path))

\* The body of the try block for one file: Group or User by the content.
ParseFile(f) ==
    IF has_group_colon(f.content) THEN ParseGroup(basename(f.path), f.content)
    ELSE ParseUser(basename(f.path), f.content)

ParseErrLine(f, e) ==
    [msg |-> "parse", id |-> <<>>, names |-> <<>>, gi |-> 0, group |-> <<>>,
     user |-> <<>>, path |-> f.path, error |-> e.tag]
TracebackLine ==
    [msg |-> "traceback", id |-> <<>>, names |-> <<>>, gi |-> 0,
     group |-> <<>>, user |-> <<>>, path |-> <<>>, error |-> "ValueError"]
BlankLine == [line |-> "blank", table |-> "none", cells |-> <<>>]

Call(op, arg) == [op |-> op, arg |-> arg]

\* Lines 171-177: the accounts named on the command line, or else the files
\* of group/ and user/ with the consistency check.
Start ==
    /\ pc = "start"
    /\ accounts' = IF argv # <<>> THEN argv ELSE disk
    /\ consistency_check' = (argv = <<>>)
    /\ pc' = "loop"
    /\ UNCHANGED <<argv, disk, idx, groups, users, stdout, stderr, trace,
                   status, parseVars, checkVars>>

\* Lines 181-188: the next file parses and its record is appended.
ParseFileReturns ==
    /\ pc = "loop" /\ idx < Len(accounts)
    /\ LET f == accounts[idx + 1]
           r == ParseFile(f)
       IN  /\ r.tag = "ok"
           /\ IF has_group_colon(f.content)
              THEN groups' = Append(groups, r.d) /\ users' = users
              ELSE users' = Append(users, r.d) /\ groups' = groups
    /\ idx' = idx + 1
    /\ trace' = Append(trace, Call("parse", idx + 1))
    /\ UNCHANGED <<argv, disk, pc, accounts, consistency_check, stdout,
                   stderr, status, parseVars, checkVars>>

\* ParseFileRaises that reports the file and goes on with the next one.
ParseFileRaises_GoesOn ==
    /\ pc = "loop" /\ idx < Len(accounts)
    /\ LET f == accounts[idx + 1]
           r == ParseFile(f)
       IN  /\ r.tag # "ok"
           /\ stderr' = Append(stderr, ParseErrLine(f, r))
    /\ idx' = idx + 1
    /\ trace' = Append(trace, Call("parse", idx + 1))
    /\ UNCHANGED <<argv, disk, pc, accounts, consistency_check, groups, users,
                   stdout, status, parseVars, checkVars>>

\* Lines 181-191: the next file raises ValueError; the error is printed
\* and main returns os.EX_DATAERR.
ParseFileRaises ==
    /\ pc = "loop" /\ idx < Len(accounts)
    /\ LET f == accounts[idx + 1]
           r == ParseFile(f)
       IN  /\ r.tag # "ok"
           /\ stderr' = Append(stderr, ParseErrLine(f, r))
    /\ trace' = Append(trace, Call("parse", idx + 1))
    /\ status' = <<EX_DATAERR>>
    /\ pc' = "done"
    /\ UNCHANGED <<argv, disk, accounts, consistency_check, idx, groups,
                   users, stdout, parseVars, checkVars>>

\* Lines 193-201: after the loop, the table of the groups if there is one.
ShowGroups ==
    /\ pc = "loop" /\ idx = Len(accounts)
    /\ IF groups # <<>>
       THEN LET t == DisplayAccounts("groups", groups, GroupOrder)
            IN  /\ trace' = Append(trace, Call("DisplayAccounts", 1))
                /\ IF t.raised
                   THEN /\ stderr' = Append(stderr, TracebackLine)
                        /\ status' = <<EX_TRACEBACK>>
                        /\ pc' = "done"
                        /\ stdout' = stdout
                   ELSE /\ stdout' = stdout \o t.rows
                        /\ pc' = "users"
                        /\ UNCHANGED <<stderr, status>>
       ELSE /\ pc' = "users"
            /\ UNCHANGED <<trace, stdout, stderr, status>>
    /\ UNCHANGED <<argv, disk, accounts, consistency_check, idx, groups,
                   users, parseVars, checkVars>>

\* Lines 203-216: the table of the users if there is one, after an empty
\* line if there were groups.
ShowUsers ==
    /\ pc = "users"
    /\ IF users # <<>>
       THEN LET t == DisplayAccounts("users", users, UserOrder)
                sep == IF groups # <<>> THEN <<BlankLine>> ELSE <<>>
            IN  /\ trace' = Append(trace, Call("DisplayAccounts", 2))
                /\ IF t.raised
                   THEN /\ stderr' = Append(stderr, TracebackLine)
                        /\ status' = <<EX_TRACEBACK>>
                        /\ pc' = "done"
                        /\ stdout' = stdout \o sep
                   ELSE /\ stdout' = stdout \o sep \o t.rows
                        /\ pc' = "check"
                        /\ UNCHANGED <<stderr, status>>
       ELSE /\ pc' = "check"
            /\ UNCHANGED <<trace, stdout, stderr, status>>
    /\ UNCHANGED <<argv, disk, accounts, consistency_check, idx, groups,
                   users, parseVars, checkVars>>

\* Lines 218-219 and the end of main: the check if it is enabled, and the
\* exit status.
RunCheck ==
    /\ pc = "check"
    /\ IF consistency_check
       THEN LET c == CheckConsistency(groups, users)
            IN  /\ cgroups' = groups /\ cusers' = users /\ cresult' = c
                /\ trace' = Append(trace, Call("CheckConsistency", 0))
                /\ stderr' = stderr \o c.err
                /\ status' = IF ~c.ret THEN <<EX_DATAERR>> ELSE <<EX_OK>>
       ELSE /\ status' = <<EX_OK>>
            /\ UNCHANGED <<trace, stderr, checkVars>>
    /\ pc' = "done"
    /\ UNCHANGED <<argv, disk, accounts, consistency_check, idx, groups,
                   users, stdout, parseVars>>

-----------------------------------------------------------------------------
(* The parser called on its own: ParseGroup or ParseUser applied to a name  *)
(* and a text.                                                              *)

NoResult == [tag |-> "none", d |-> NoDict, parts |-> 0, key |-> <<>>, keys |-> {}]

\* The lines the texts are made of: an empty line, a comment that would not
\* parse as a pair, a line holding one space, pairs with declared keys
\* (required and defaulted ones, one key with two values), a pair with an
\* undeclared key, a line without ':' and a line with two.
ParseLines ==
    { <<>>,
      <<"#", "bogus">>,
      <<" ">>,
      <<"group", ":", "a">>,
      <<"user", ":", "a">>,
      <<"uid", ":", "1">>,
      <<"gid", ":", "1">>,
      <<"gid", ":", "2">>,
      <<"password", ":", "x">>,
      <<"bogus", ":", "1">>,
      <<"bogus">>,
      <<"gid", ":", "1", ":", "2">> }

\* The basenames the parser is called with.
ParseNames == { <<"a">>, <<"b">> }

LineLists == UNION { [1..n -> ParseLines] : n \in 0..MaxLines }

\* The text whose lines are ls: the lines, each one ended by a line break
\* except the last.
JoinLines(ls) == join(ls, NL)

ParseContents == { JoinLines(ls) : ls \in LineLists }

mainIdle ==
    /\ argv = <<>> /\ disk = <<>> /\ pc = "idle" /\ accounts = <<>>
    /\ consistency_check = FALSE /\ idx = 0 /\ groups = <<>> /\ users = <<>>
    /\ stdout = <<>> /\ stderr = <<>> /\ trace = <<>> /\ status = <<>>
checkIdle == cgroups = <<>> /\ cusers = <<>> /\ cresult = NoCheck
parseIdle ==
    pname = <<>> /\ pcontent = <<>> /\ pkind = "none" /\ presult = NoResult

InitParse ==
    /\ pname \in ParseNames
    /\ pcontent \in ParseContents
    /\ pkind = "none"
    /\ presult = NoResult
    /\ checkIdle
    /\ mainIdle

CallParseGroup ==
    /\ pkind = "none"
    /\ pkind' = "group"
    /\ presult' = ParseGroup(pname, pcontent)
    /\ UNCHANGED <<pname, pcontent, checkVars, mainVars>>

CallParseUser ==
    /\ pkind = "none"
    /\ pkind' = "user"
    /\ presult' = ParseUser(pname, pcontent)
    /\ UNCHANGED <<pname, pcontent, checkVars, mainVars>>

NextParse == CallParseGroup \/ CallParseUser

SpecParse == InitParse /\ [][NextParse]_vars

-----------------------------------------------------------------------------
(* What the claims about the parser speak of: the lines of the text, read   *)
(* off the text directly.                                                   *)

Lines == splitlines(pcontent)

Colons(line) == Cardinality({i \in 1..Len(line) : line[i] = ":"})
ColonAt(line) == CHOOSE i \in 1..Len(line) : line[i] = ":"

\* an empty line or a comment
Skipped(line) == line = <<>> \/ line[1] = "#"
\* a 'key:value' line
IsPair(line) == ~Skipped(line) /\ Colons(line) = 1
KeyOf(line) == SubSeq(line, 1, ColonAt(line) - 1)
ValOf(line) == SubSeq(line, ColonAt(line) + 1, Len(line))
\* a 'key:value' line whose key is a field of the kind
Declared(line, fields) ==
    IsPair(line) /\ \E k \in fields : KeyOf(line) = <<k>>
\* a 'key:value' line whose key is no field of the kind
Undeclared(line, fields) == IsPair(line) /\ ~Declared(line, fields)
\* a line that is no 'key:value' line: no ':' or more than one
Malformed(line) == ~Skipped(line) /\ Colons(line) # 1

FieldsOf(kind) == IF kind = "group" THEN GroupFields ELSE UserFields
NameKeyOf(kind) == IF kind = "group" THEN "group" ELSE "user"
RequiredOf(kind) ==
    IF kind = "group" THEN {"group", "gid"} ELSE {"user", "uid", "gid"}
SchemaDefault(k) ==
    CASE k = "password" -> <<"!">>
      [] k = "users"    -> <<>>
      [] k = "defunct"  -> <<>>
      [] k = "gecos"    -> <<>>
      [] k = "home"     -> <<"/dev/null">>
      [] k = "shell"    -> <<"/bin/false">>

Called == pkind # "none"
WellFormedText ==
    \A i \in 1..Len(Lines) :
        Skipped(Lines[i]) \/ Declared(Lines[i], FieldsOf(pkind))
SuppliedAt(k) ==
    {i \in 1..Len(Lines) : IsPair(Lines[i]) /\ KeyOf(Lines[i]) = <<k>>}
Supplied == {k \in FieldsOf(pkind) : SuppliedAt(k) # {}}
LastValue(k) ==
    LET last == CHOOSE i \in SuppliedAt(k) : \A j \in SuppliedAt(k) : j <= i
    IN  ValOf(Lines[last])
Failed == presult.tag \in {"unpack", "unknown", "missing", "name"}

\* C1: a text whose lines are all empty, comments or pairs with declared
\* keys, which supplies every field without a default and whose name field
\* is the basename, parses to a record with every declared field set: a
\* supplied field holds the value of its last occurrence, any other field
\* the schema default.
C1_ParseFillsEveryField ==
    (/\ Called
     /\ WellFormedText
     /\ RequiredOf(pkind) \subseteq Supplied
     /\ LastValue(NameKeyOf(pkind)) = pname)
    => /\ presult.tag = "ok"
       /\ DOMAIN presult.d = FieldsOf(pkind)
       /\ \A k \in FieldsOf(pkind) :
              presult.d[k] = IF k \in Supplied THEN LastValue(k)
                             ELSE SchemaDefault(k)

\* A group record was returned for a text that gives gid twice with
\* different values and leaves defaulted fields out.
C1_Witness ==
    /\ pkind = "group"
    /\ presult.tag = "ok"
    /\ \E i, j \in SuppliedAt("gid") : i < j /\ ValOf(Lines[i]) # ValOf(Lines[j])
    /\ "users" \notin Supplied
    /\ presult.d["gid"] = <<"2">>

\* C2 as stated: a pair with an undeclared key anywhere in the text makes
\* Parse fail with the unknown-key error naming that key, whatever the
\* other lines are.
C2_UnknownFieldWhateverTheRest ==
    Called =>
        \A i \in 1..Len(Lines) :
            Undeclared(Lines[i], FieldsOf(pkind))
            => presult.tag = "unknown" /\ presult.key = KeyOf(Lines[i])

\* C2 amended: a pair with an undeclared key anywhere in the text makes
\* Parse fail, and the failure is the unknown-key error naming that key
\* when every line before it is empty, a comment or a pair with a declared
\* key.
C2_UnknownFieldFirstOffence ==
    Called =>
        \A i \in 1..Len(Lines) :
            Undeclared(Lines[i], FieldsOf(pkind))
            => /\ Failed
               /\ (\A j \in 1..(i - 1) :
                       Skipped(Lines[j]) \/ Declared(Lines[j], FieldsOf(pkind)))
                  => presult.tag = "unknown" /\ presult.key = KeyOf(Lines[i])

\* The unknown-key error was raised for a pair that is not on the first
\* line and is followed by a line that is no pair.
C2_Witness ==
    /\ Called
    /\ presult.tag = "unknown"
    /\ \E i \in 2..(Len(Lines) - 1) :
           /\ Undeclared(Lines[i], FieldsOf(pkind))
           /\ presult.key = KeyOf(Lines[i])
           /\ Declared(Lines[i - 1], FieldsOf(pkind))
           /\ Malformed(Lines[i + 1])

\* C3: on a text of empty lines, comments and pairs with declared keys,
\* Parse fails with the missing-keys error exactly when a field without a
\* default is not supplied, and the error names exactly the declared fields
\* neither supplied nor defaulted.
C3_MissingFieldsExact ==
    (Called /\ WellFormedText)
    => /\ presult.tag = "missing" <=> (RequiredOf(pkind) \ Supplied) # {}
       /\ presult.tag = "missing"
          => presult.keys = RequiredOf(pkind) \ Supplied

\* The missing-keys error was raised for a text that supplies one required
\* field and not another.
C3_Witness ==
    /\ Called /\ WellFormedText
    /\ presult.tag = "missing"
    /\ (RequiredOf(pkind) \cap Supplied) # {}
    /\ presult.keys # RequiredOf(pkind)

\* The same call on the text without its empty lines and comments.
WithoutSkipped ==
    JoinLines(SelectSeq(Lines, LAMBDA l : ~Skipped(l)))
SkippedLinesIgnored ==
    presult = IF pkind = "group" THEN ParseGroup(pname, WithoutSkipped)
              ELSE ParseUser(pname, WithoutSkipped)

\* C4 as stated: every line that is not empty, is no comment and has no ':'
\* or more than one makes Parse fail with the malformed-line error; empty
\* lines and comments change nothing.
C4_MalformedLineAlwaysReported ==
    Called =>
        /\ \A i \in 1..Len(Lines) :
               Malformed(Lines[i]) => presult.tag = "unpack"
        /\ SkippedLinesIgnored

\* C4 amended: every such line makes Parse fail, and with the
\* malformed-line error when no line before it is a pair with an undeclared
\* key; empty lines and comments change nothing.
C4_MalformedLineFails ==
    Called =>
        /\ \A i \in 1..Len(Lines) :
               Malformed(Lines[i])
               => /\ Failed
                  /\ (\A j \in 1..(i - 1) :
                          ~Undeclared(Lines[j], FieldsOf(pkind)))
                     => presult.tag = "unpack"
        /\ SkippedLinesIgnored

\* The malformed-line error was raised for a line with two ':' that comes
\* after a comment, in a text that also has an empty line.
C4_Witness ==
    /\ Called
    /\ presult.tag = "unpack" /\ presult.parts = 3
    /\ \E i, j, k \in 1..Len(Lines) :
           /\ j < i
           /\ Colons(Lines[i]) = 2
           /\ Lines[j] # <<>> /\ Skipped(Lines[j])
           /\ Lines[k] = <<>>

\* C5: Parse returns a record only if its name field equals the basename;
\* a text that populates every declared field (only empty lines, comments
\* and pairs with declared keys, every field without a default supplied)
\* and whose name field differs from the basename fails with the
\* name-mismatch error.
C5_NameMatchesBasename ==
    Called =>
        /\ presult.tag = "ok" => presult.d[NameKeyOf(pkind)] = pname
        /\ (/\ WellFormedText
            /\ RequiredOf(pkind) \subseteq Supplied
            /\ LastValue(NameKeyOf(pkind)) # pname)
           => /\ presult.tag = "name"
              /\ presult.key = LastValue(NameKeyOf(pkind))

\* The name-mismatch error was raised for a user text with every field
\* populated.
C5_Witness ==
    /\ pkind = "user"
    /\ WellFormedText
    /\ RequiredOf(pkind) \subseteq Supplied
    /\ presult.tag = "name"
    /\ presult.key # pname

-----------------------------------------------------------------------------
(* The checker called on its own: CheckConsistency applied to a list of    *)
(* groups and a list of users.                                              *)

MkGroup(name, gid, members) ==
    [group |-> name, password |-> <<"!">>, gid |-> gid, users |-> members,
     defunct |-> <<>>]
MkUser(name, uid, gid) ==
    [user |-> name, password |-> <<"!">>, uid |-> uid, gid |-> gid,
     gecos |-> <<>>, home |-> <<"/dev/null">>, shell |-> <<"/bin/false">>,
     defunct |-> <<>>]

\* The member lists: none, one user, two users, a list ending in a comma.
CheckMembers == { <<>>, <<"a">>, <<"a", ",", "b">>, <<"a", ",">> }
\* "1" and "01" are one number written in two ways.
CheckGroupSet ==
    { MkGroup(n, g, m) : n \in { <<"g">>, <<"h">> },
                         g \in { <<"1">>, <<"01">> }, m \in CheckMembers }
CheckUserSet ==
    { MkUser(n, u, <<"1">>) : n \in { <<"a">>, <<"b">> },
                              u \in { <<"1">>, <<"2">> } }

InitCheck ==
    /\ cgroups \in UNION { [1..n -> CheckGroupSet] : n \in 0..MaxGroups }
    /\ cusers \in UNION { [1..n -> CheckUserSet] : n \in 0..MaxUsers }
    /\ cresult = NoCheck
    /\ parseIdle
    /\ mainIdle

CallCheckConsistency ==
    /\ ~cresult.called
    /\ cresult' = CheckConsistency(cgroups, cusers)
    /\ UNCHANGED <<cgroups, cusers, parseVars, mainVars>>

NextCheck == CallCheckConsistency

SpecCheck == InitCheck /\ [][NextCheck]_vars

\* The lines of one format among those printed.
LinesOf(err, msg) == SelectSeq(err, LAMBDA l : l.msg = msg)

\* The accounts (by position) whose id field holds the text id.
Owners(accts, id_key, id) == {i \in 1..Len(accts) : accts[i][id_key] = id}

\* One line for each id held by more than one account, naming the id and
\* every account holding it; no line for any other id.
DuplicatesReported(accts, name_key, id_key, lines) ==
    /\ \A i \in 1..Len(accts) :
           LET id == accts[i][id_key]
               n  == Cardinality({k \in 1..Len(lines) : lines[k].id = id})
           IN  IF Cardinality(Owners(accts, id_key, id)) > 1
               THEN /\ n = 1
                    /\ \A k \in 1..Len(lines) :
                           lines[k].id = id
                           => /\ Len(lines[k].names)
                                   = Cardinality(Owners(accts, id_key, id))
                              /\ Range(lines[k].names)
                                   = {accts[j][name_key] :
                                          j \in Owners(accts, id_key, id)}
               ELSE n = 0
    /\ \A k \in 1..Len(lines) : Owners(accts, id_key, lines[k].id) # {}

HasDuplicate(accts, id_key) ==
    \E i, j \in 1..Len(accts) : i # j /\ accts[i][id_key] = accts[j][id_key]

Members(g) == IF g["users"] = <<>> THEN {} ELSE Range(split(g["users"], ","))

\* The pairs (group, username) with the username among the group's members
\* and no user record of that name.
Dangling ==
    {gu \in (1..Len(cgroups)) \X
            UNION {Members(cgroups[i]) : i \in 1..Len(cgroups)} :
        /\ gu[2] \in Members(cgroups[gu[1]])
        /\ \A k \in 1..Len(cusers) : cusers[k]["user"] # gu[2]}

\* C8: Check prints a dangling-reference line for exactly the pairs
\* (group, username) with the username in the group's member list and no
\* user record of that name, one line each, whether or not duplicates were
\* found; the result is not ok when there is such a pair.
C8_DanglingReferencesExact ==
    cresult.called =>
        LET lines == LinesOf(cresult.err, "wants")
        IN  /\ {<<lines[k].gi, lines[k].user>> : k \in 1..Len(lines)} = Dangling
            /\ Len(lines) = Cardinality(Dangling)
            /\ \A k \in 1..Len(lines) :
                   lines[k].group = cgroups[lines[k].gi]["group"]
            /\ Dangling # {} => ~cresult.ret

-----------------------------------------------------------------------------
(* One run of main over a set of account files.                             *)

File(dir, name, content) ==
    [path |-> <<dir, "/">> \o name, content |-> content]
GroupText(name, gid, members) ==
    JoinLines(<< <<"group", ":">> \o name, <<"gid", ":">> \o gid,
                 <<"users", ":">> \o members >>)
UserText(name, uid) ==
    JoinLines(<< <<"user", ":">> \o name, <<"uid", ":">> \o uid,
                 <<"gid", ":", "1">> >>)

\* The account files of the runs: groups with and without members, with
\* equal and different gids, users with equal and different uids, a gid and
\* a uid that are no numbers, a file with a line without ':' and a file
\* whose user field is not its name.
MainFiles ==
    { File("group", <<"g">>, GroupText(<<"g">>, <<"1">>, <<"a">>)),
      File("group", <<"g">>, GroupText(<<"g">>, <<"1">>, <<"b">>)),
      File("group", <<"g">>, GroupText(<<"g">>, <<"x">>, <<>>)),
      File("group", <<"h">>, GroupText(<<"h">>, <<"1">>, <<>>)),
      File("group", <<"h">>, GroupText(<<"h">>, <<"2">>, <<>>)),
      File("group", <<"h">>,
           JoinLines(<< <<"group", ":", "h">>, <<"bogus=1">> >>)),
      File("user", <<"a">>, UserText(<<"a">>, <<"1">>)),
      File("user", <<"a">>, UserText(<<"a">>, <<"x">>)),
      File("user", <<"b">>, UserText(<<"b">>, <<"1">>)),
      File("user", <<"b">>, UserText(<<"a">>, <<"1">>)) }

FileLists == UNION { [1..n -> MainFiles] : n \in 0..MaxFiles }

\* What glob(group/*) + glob(user/*) can return: files of different paths,
\* those of group/ first.
GlobResult(fs) ==
    /\ \A i, j \in 1..Len(fs) : i # j => fs[i].path # fs[j].path
    /\ \A i, j \in 1..Len(fs) :
           (fs[i].path[1] = "group" /\ fs[j].path[1] = "user") => i < j

Init ==
    /\ \E fs \in FileLists :
           \/ fs # <<>> /\ argv = fs /\ disk = <<>>
           \/ GlobResult(fs) /\ argv = <<>> /\ disk = fs
    /\ pc = "start"
    /\ accounts = <<>>
    /\ consistency_check = FALSE
    /\ idx = 0
    /\ groups = <<>> /\ users = <<>>
    /\ stdout = <<>> /\ stderr = <<>> /\ trace = <<>>
    /\ status = <<>>
    /\ parseIdle
    /\ checkIdle

Next ==
    \/ Start
    \/ ParseFileReturns
    \/ ParseFileRaises
    \/ ShowGroups
    \/ ShowUsers
    \/ RunCheck

Spec == Init /\ [][Next]_vars

-----------------------------------------------------------------------------
(* What the claims about the driver speak of, read off the input files.     *)

Inputs == IF argv # <<>> THEN argv ELSE disk
Explicit == argv # <<>>
Done == pc = "done"

Parses(f) == ParseFile(f).tag = "ok"
AllParse == \A i \in 1..Len(Inputs) : Parses(Inputs[i])
\* the first file whose parse fails (when not AllParse)
FirstBad ==
    CHOOSE i \in 1..Len(Inputs) :
        ~Parses(Inputs[i]) /\ \A j \in 1..(i - 1) : Parses(Inputs[j])

AnyGroup == \E i \in 1..Len(Inputs) : has_group_colon(Inputs[i].content)
AnyUser  == \E i \in 1..Len(Inputs) : ~has_group_colon(Inputs[i].content)

ParseCalls(n) == [i \in 1..n |-> Call("parse", i)]
IsPrefix(s, t) == Len(s) <= Len(t) /\ s = SubSeq(t, 1, Len(s))
Ops(tr) == {tr[i].op : i \in 1..Len(tr)}
ConsistencyLines ==
    SelectSeq(stderr, LAMBDA l : l.msg \in {"duplicate gid", "duplicate uid",
                                            "unknown users", "wants"})

\* C6: when the parse of a file fails the run stops at that file: the
\* files before it were parsed and no later one is, one error naming that
\* file is printed, nothing is ever printed to stdout, the check is not
\* run, and the exit status is EX_DATAERR.
C6_ParseFailureStopsRun ==
    ~AllParse =>
        /\ stdout = <<>>
        /\ IsPrefix(trace, ParseCalls(FirstBad))
        /\ ~cresult.called
        /\ Done => /\ trace = ParseCalls(FirstBad)
                   /\ idx = FirstBad - 1
                   /\ Len(stderr) = 1
                   /\ stderr[1].msg = "parse"
                   /\ stderr[1].path = Inputs[FirstBad].path
                   /\ status = <<EX_DATAERR>>
        /\ Len(trace) = FirstBad => Done

\* A run ended at a failing file that is neither the first nor the last.
C6_Witness ==
    /\ Done
    /\ ~AllParse
    /\ FirstBad > 1 /\ FirstBad < Len(Inputs)
    /\ status = <<EX_DATAERR>>

\* C9: a run with account arguments never calls Check, prints no
\* consistency line and, when its files all parse, exits with status 0; a
\* run without arguments whose files all parse calls Check.
C9_CheckOnlyOnDefaultScan ==
    /\ Explicit
       => /\ "CheckConsistency" \notin Ops(trace)
          /\ ~cresult.called
          /\ ConsistencyLines = <<>>
          /\ (Done /\ AllParse) => status = <<EX_OK>>
    /\ (~Explicit /\ Done /\ AllParse)
       => "CheckConsistency" \in Ops(trace)

\* The calls of a run whose files all parse: the parses, the groups table
\* if there is a group, the users table if there is a user, the check if it
\* is enabled.
ExpectedCalls ==
    ParseCalls(Len(Inputs))
    \o (IF AnyGroup THEN <<Call("DisplayAccounts", 1)>> ELSE <<>>)
    \o (IF AnyUser THEN <<Call("DisplayAccounts", 2)>> ELSE <<>>)
    \o (IF ~Explicit THEN <<Call("CheckConsistency", 0)>> ELSE <<>>)

\* C10: a run whose files all parse renders the groups table (if any
\* group), then the users table (if any user), then runs the check (if
\* enabled), and always ends with EX_DATAERR exactly when the check ran and
\* was not ok and with 0 otherwise, whatever the gid and uid texts are.
C10_RenderThenCheckThenExit ==
    AllParse =>
        /\ IsPrefix(trace, ExpectedCalls)
        /\ Done => /\ trace = ExpectedCalls
                   /\ status = IF cresult.called /\ ~cresult.ret
                               THEN <<EX_DATAERR>> ELSE <<EX_OK>>

====
